---- MODULE Spec2Model ----
(***************************************************************************)
(* Model of preprocess_pdfs.py: the batch driver that rasterizes every PDF *)
(* of the input directory (convert), runs OCR on every page image          *)
(* (tesseract), deletes or keeps the PDF and the page images, optionally   *)
(* appends the page texts to one aggregate file, and prints a summary.     *)
(*                                                                         *)
(* The external world (convert, tesseract, os.remove, open, os.makedirs,   *)
(* glob) is nondeterministic: each action draws the outcome of the calls   *)
(* it makes.  Documents are numbered 1..n, the pages of a document 0..k-1. *)
(***************************************************************************)
EXTENDS Integers, Sequences, FiniteSets

\* ---------------------------------------------------------------- bounds
MaxDocs == 2      \* documents in the input directory: 0..MaxDocs
MaxPages == 2     \* page images convert writes for one document: 0..MaxPages
MaxFaults == 3    \* failures of external calls in one run: 0..MaxFaults
MaxOdd == 1       \* page images and text files left by an earlier run, and
                  \* documents whose name the glob of line 209 reads as more
                  \* than a name
MaxOddFaults == 1 \* failures of external calls in a run that starts with one
                  \* of those: 0..MaxOddFaults
MaxFairFaults == 2 \* failures of external calls in a run of FairSpec: 0..MaxFairFaults

Docs == 1..MaxDocs
PageIdx == 0..(MaxPages - 1)

VARIABLES
    no_delete, keep_pdfs, keep_pngs,   \* args.no_delete, args.keep_pdfs, args.keep_pngs
    error_handling,                    \* args.error_handling: "exit" or "continue"
    single_file,                       \* args.single_file given (aggregation mode)
    pdf_files,                         \* glob of the input directory
    success_count, fail_count, error_count, files_with_errors,
    idx,                               \* position of the document loop in pdf_files
    file_had_error, png_files, page_success, page_fail,
    pidx,                              \* position of the page loop in png_files
    pc,                                \* position of the script
    exit_status,                       \* -1 while running, else the process exit status
    log,                               \* the lines log_print wrote, in order
    pdf, png, txt,                     \* the files: "none", "exists" or "deleted"
    aggregate,                         \* the blocks appended to the single file, in order
    output_dir,                        \* the output directory: "missing" or "exists"
    log_dir,                           \* the directory of the log file: "missing" or "exists"
    stem,                              \* the name of each document without ".pdf"
    rasterized,                        \* how many page images convert wrote for each document
    faults                             \* failures of external calls so far (counted
                                       \* from MaxFaults - MaxOddFaults in a run that
                                       \* starts with a leftover or an odd name)

vars == <<no_delete, keep_pdfs, keep_pngs, error_handling, single_file, pdf_files,
          success_count, fail_count, error_count, files_with_errors, idx,
          file_had_error, png_files, page_success, page_fail, pidx, pc,
          exit_status, log, pdf, png, txt, aggregate, output_dir, log_dir, stem,
          rasterized, faults>>

config == <<no_delete, keep_pdfs, keep_pngs, error_handling, single_file, stem>>
counters == <<success_count, fail_count, error_count, files_with_errors>>
pageloop == <<png_files, page_success, page_fail, pidx>>
files == <<pdf, png, txt, aggregate, rasterized>>
dirs == <<output_dir, log_dir>>

\* ------------------------------------------------------------- helpers
Range(s) == {s[k] : k \in 1..Len(s)}

RECURSIVE Perms(_)
\* every order in which glob.glob may list a set of files (it does not sort)
Perms(S) == IF S = {} THEN {<<>>}
            ELSE UNION {{<<x>> \o q : q \in Perms(S \ {x})} : x \in S}

\* ------------------------------------------------------------ file names
\* the stems of documents with plain names, by position in the listing
PlainStems == <<"a", "b", "c", "d">>
\* a stem that goes on after another stem with "-<digit>" (b-1.pdf beside b.pdf)
\* and a stem with characters glob reads as a character class
PrefixStem == "b-1"
ClassStem == "a[1]"

\* the characters of a stem
Chars(st) ==
    CASE st = "a" -> <<"a">>
      [] st = "b" -> <<"b">>
      [] st = "c" -> <<"c">>
      [] st = "d" -> <<"d">>
      [] st = "b-1" -> <<"b", "-", "1">>
      [] st = "a[1]" -> <<"a", "[", "1", "]">>
      [] OTHER -> <<>>

\* the characters the names are made of, in the order of their codes
CharOrder == <<"!", "*", "-", ".", "0", "1", "2", "3", "4", "5", "6", "7", "8", "9",
               "?", "[", "]", "a", "b", "c", "d", "g", "n", "p">>
Code(c) == CHOOSE i \in 1..Len(CharOrder) : CharOrder[i] = c
\* "%d" of line 202
Digit(p) == CharOrder[Code("0") + p]

\* a page image: the document it was converted from and its page index
File(d, p) == [doc |-> d, page |-> p]
\* line 202: "<base_name>-%d.png"
PngName(st, p) == Chars(st) \o <<"-", Digit(p), ".", "p", "n", "g">>
\* line 209: the pattern "<base_name>-[0-9]*.png"
Pattern(st) == Chars(st) \o <<"-", "[", "0", "-", "9", "]", "*", ".", "p", "n", "g">>

\* fnmatch, the bracket expression that starts at pat[1] = "[": the position of
\* the "]" that closes it (a "!" and a "]" right after the "[" are part of the
\* expression), 0 when none does and the "[" stands for itself
ClassEnd(pat) ==
    LET j1 == IF Len(pat) >= 2 /\ pat[2] = "!" THEN 3 ELSE 2
        j2 == IF Len(pat) >= j1 /\ pat[j1] = "]" THEN j1 + 1 ELSE j1
        ends == {j \in j2..Len(pat) : pat[j] = "]"}
    IN  IF ends = {} THEN 0 ELSE CHOOSE j \in ends : \A k \in ends : j <= k

RECURSIVE ClassHas(_, _)
\* fnmatch: c is one of the characters and ranges between the brackets
ClassHas(c, body) ==
    IF body = <<>> THEN FALSE
    ELSE IF Len(body) >= 3 /\ body[2] = "-"
    THEN (Code(body[1]) <= Code(c) /\ Code(c) <= Code(body[3]))
            \/ ClassHas(c, SubSeq(body, 4, Len(body)))
    ELSE c = body[1] \/ ClassHas(c, Tail(body))

\* fnmatch: c matches the bracket expression with this body
InClass(c, body) ==
    IF body # <<>> /\ Head(body) = "!" THEN ~ClassHas(c, Tail(body))
    ELSE ClassHas(c, body)

RECURSIVE fnmatch(_, _)
\* fnmatch.fnmatch as glob.glob uses it: "*" any run of characters, "?" any one
\* character, "[...]" one character of the class, any other character itself
fnmatch(name, pat) ==
    IF pat = <<>> THEN name = <<>>
    ELSE IF Head(pat) = "*"
    THEN fnmatch(name, Tail(pat)) \/ (name # <<>> /\ fnmatch(Tail(name), pat))
    ELSE IF name = <<>> THEN FALSE
    ELSE IF Head(pat) = "?" THEN fnmatch(Tail(name), Tail(pat))
    ELSE IF Head(pat) = "[" /\ ClassEnd(pat) > 0
    THEN /\ InClass(Head(name), SubSeq(pat, 2, ClassEnd(pat) - 1))
         /\ fnmatch(Tail(name), SubSeq(pat, ClassEnd(pat) + 1, Len(pat)))
    ELSE Head(name) = Head(pat) /\ fnmatch(Tail(name), Tail(pat))

\* the stems a document can have
Stems == Range(PlainStems) \cup {PrefixStem, ClassStem}
\* line 209 for every pair of stems: does the pattern of a document with the
\* first stem match page p of a document with the second
Globbed == [ps \in Stems |-> [fs \in Stems |-> [p \in PageIdx |->
               fnmatch(PngName(fs, p), Pattern(ps))]]]

\* ------------------------------------------------------------------- log
\* one line of the log: what it says, the document and the page it names (0 and
\* -1 when it names none) and the number it reports
Line(tag, d, p, v) == [tag |-> tag, doc |-> d, page |-> p, val |-> v]
RunLine(tag, v) == Line(tag, 0, -1, v)
DocLine(tag, d) == Line(tag, d, -1, 0)
PageLine(tag, d, p) == Line(tag, d, p, 0)

\* the log file path, and the function object line 183 passes in its place
LogFilePath == "log_file"
LogPrintFunction == "log_print"

\* open(log_file, "a") of log_print: raises TypeError unless given a path, and
\* FileNotFoundError when the directory of the log file is missing (with
\* -l out/run.log: the output directory, before line 169 creates it)
CanOpen(target) == target = LogFilePath /\ log_dir = "exists"

RECURSIVE log_print_all(_, _)
\* a run of log_print calls, each [line, target]; stops at the first that raises
log_print_all(lg, calls) ==
    IF calls = <<>> THEN [log |-> lg, raised |-> FALSE]
    ELSE IF CanOpen(Head(calls).target)
         THEN log_print_all(Append(lg, Head(calls).line), Tail(calls))
         ELSE [log |-> lg, raised |-> TRUE]

\* delete_pdf with "and" for "or": --keep-pdfs alone no longer keeps the PDF
PdfKept_And(nd, kp) == nd /\ kp
\* delete_pdf line 26: the deletion is skipped
PdfKept(nd, kp) == nd \/ kp
\* delete_png line 39: the deletion is skipped
PngKept(nd, kp) == nd \/ kp

\* delete_pdf: fails is whether os.remove raises
delete_pdf(d, nd, kp, fails) ==
    IF PdfKept(nd, kp)
    THEN [ret |-> 0, removed |-> FALSE,
          log |-> <<DocLine("skip_delete_pdf", d)>>]
    ELSE IF fails
    THEN [ret |-> 1, removed |-> FALSE,
          log |-> <<DocLine("deleting_pdf", d),
                    DocLine("error_delete_pdf", d)>>]
    ELSE [ret |-> 0, removed |-> TRUE,
          log |-> <<DocLine("deleting_pdf", d)>>]

\* delete_png: fails is whether os.remove raises
delete_png(d, p, nd, kp, fails) ==
    IF PngKept(nd, kp)
    THEN [ret |-> 0, removed |-> FALSE,
          log |-> <<PageLine("skip_delete_png", d, p)>>]
    ELSE IF fails
    THEN [ret |-> 1, removed |-> FALSE,
          log |-> <<PageLine("deleting_png", d, p),
                    PageLine("error_delete_png", d, p)>>]
    ELSE [ret |-> 0, removed |-> TRUE,
          log |-> <<PageLine("deleting_png", d, p)>>]

\* handle_error without the test of line 53: it exits in either mode
ExitsOnError_Always(eh) == TRUE
\* handle_error line 53: the script exits
ExitsOnError(eh) == eh = "exit"

\* handle_error: the lines it logs
handle_error(tag, d, p, eh) ==
    IF ExitsOnError(eh)
    THEN <<Line(tag, d, p, 0), RunLine("exiting", 0)>>
    ELSE <<Line(tag, d, p, 0)>>

\* what append_to_single_file writes for one page: the header of line 63, which
\* is "<page_base_name>.pdf", the name of the page (hpage) and not the name of
\* the document, then the text of the page (lines 64-65)
Block(d, p) == [hdoc |-> d, hpage |-> p, doc |-> d, page |-> p, text |-> TRUE]
\* the header alone: src.read() or the write of the text raised after line 63
HeaderOnly(d, p) == [hdoc |-> d, hpage |-> p, doc |-> d, page |-> p, text |-> FALSE]

\* what the call leaves in the single file
Written(d, p, w) == IF w = "block" THEN <<Block(d, p)>>
                    ELSE IF w = "header" THEN <<HeaderOnly(d, p)>>
                    ELSE <<>>

\* the ways a call of append_to_single_file can end: "ok"; "open_fail" (an open
\* of line 62 raises: nothing is written); "read_fail" (line 64 raises after the
\* header was written); "remove_fail" (os.remove of line 67 raises)
AppendOutcomes == {"ok", "open_fail", "read_fail", "remove_fail"}

\* append_to_single_file with "return True" in the except branch: a failed append
\* is reported as done
append_to_single_file_SwallowsFail(d, p, isfile, outcome) ==
    IF ~isfile
    THEN [ret |-> FALSE, written |-> "nothing", removed |-> FALSE, log |-> <<>>]
    ELSE IF outcome = "ok"
    THEN [ret |-> TRUE, written |-> "block", removed |-> TRUE,
          log |-> <<PageLine("appended", d, p)>>]
    ELSE IF outcome = "remove_fail"
    THEN [ret |-> TRUE, written |-> "block", removed |-> FALSE,
          log |-> <<PageLine("appended", d, p), PageLine("error_append", d, p)>>]
    ELSE IF outcome = "read_fail"
    THEN [ret |-> TRUE, written |-> "header", removed |-> FALSE,
          log |-> <<PageLine("error_append", d, p)>>]
    ELSE [ret |-> TRUE, written |-> "nothing", removed |-> FALSE,
          log |-> <<PageLine("error_append", d, p)>>]

\* append_to_single_file with os.remove moved into a finally branch: the text
\* file is removed whether or not the append was done
append_to_single_file_RemovesOnFail(d, p, isfile, outcome) ==
    IF ~isfile
    THEN [ret |-> FALSE, written |-> "nothing", removed |-> FALSE, log |-> <<>>]
    ELSE IF outcome = "ok"
    THEN [ret |-> TRUE, written |-> "block", removed |-> TRUE,
          log |-> <<PageLine("appended", d, p)>>]
    ELSE IF outcome = "remove_fail"
    THEN [ret |-> FALSE, written |-> "block", removed |-> FALSE,
          log |-> <<PageLine("appended", d, p), PageLine("error_append", d, p)>>]
    ELSE IF outcome = "read_fail"
    THEN [ret |-> FALSE, written |-> "header", removed |-> TRUE,
          log |-> <<PageLine("error_append", d, p)>>]
    ELSE [ret |-> FALSE, written |-> "nothing", removed |-> TRUE,
          log |-> <<PageLine("error_append", d, p)>>]

\* append_to_single_file: what it returns, writes, removes and logs
append_to_single_file(d, p, isfile, outcome) ==
    IF ~isfile
    THEN [ret |-> FALSE, written |-> "nothing", removed |-> FALSE, log |-> <<>>]
    ELSE IF outcome = "ok"
    THEN [ret |-> TRUE, written |-> "block", removed |-> TRUE,
          log |-> <<PageLine("appended", d, p)>>]
    ELSE IF outcome = "remove_fail"
    THEN [ret |-> FALSE, written |-> "block", removed |-> FALSE,
          log |-> <<PageLine("appended", d, p), PageLine("error_append", d, p)>>]
    ELSE IF outcome = "read_fail"
    THEN [ret |-> FALSE, written |-> "header", removed |-> FALSE,
          log |-> <<PageLine("error_append", d, p)>>]
    ELSE [ret |-> FALSE, written |-> "nothing", removed |-> FALSE,
          log |-> <<PageLine("error_append", d, p)>>]

\* lines 221 and 253: the error count is past the threshold
OverThreshold(ec, npng) == ec > npng + 1

\* line 260: the document is counted as a success
DocSucceeded(ps, pf) == pf = 0 /\ ps > 0

\* ---------------------------------------------------------------- Init
\* every page image there can be
AllFiles == {File(d, p) : d \in Docs, p \in PageIdx}

\* the stems of the documents, by position in the listing of line 178: plain
\* names, or b-1.pdf listed before b.pdf, or one document named a[1].pdf
PlainNames == [d \in Docs |-> PlainStems[d]]
Namings(n) ==
    {PlainNames}
        \cup (IF n >= 2 THEN {[PlainNames EXCEPT ![1] = PrefixStem]} ELSE {})
        \cup {[PlainNames EXCEPT ![k] = ClassStem] : k \in 1..n}

\* the state after line 162, with this many failures counted as already spent
Start(spent) ==
    /\ no_delete \in BOOLEAN
    /\ keep_pdfs \in BOOLEAN
    /\ keep_pngs \in BOOLEAN
    /\ error_handling \in {"exit", "continue"}
    /\ single_file \in BOOLEAN
    /\ output_dir \in {"missing", "exists"}
    /\ log_dir \in {"missing", "exists"}
    /\ \E n \in 0..MaxDocs :
          /\ pdf = [d \in Docs |-> IF d <= n THEN "exists" ELSE "none"]
          /\ \E names \in Namings(n),
                left \in SUBSET {f \in AllFiles : f.doc <= n},
                old \in SUBSET {f \in AllFiles : f.doc <= n} :
                LET odd == Cardinality(left) + Cardinality(old)
                             + (IF names = PlainNames THEN 0 ELSE 1)
                    oddspent == IF odd = 0 THEN 0 ELSE MaxFaults - MaxOddFaults
                IN  /\ odd <= MaxOdd
                    /\ old # {} => output_dir = "exists"
                    /\ stem = names
                    /\ png = [d \in Docs |-> [p \in PageIdx |->
                                 IF File(d, p) \in left THEN "exists" ELSE "none"]]
                    /\ txt = [d \in Docs |-> [p \in PageIdx |->
                                 IF File(d, p) \in old THEN "exists" ELSE "none"]]
                    /\ faults = IF spent > oddspent THEN spent ELSE oddspent
    /\ rasterized = [d \in Docs |-> 0]
    /\ aggregate = <<>>
    /\ pdf_files = <<>>
    /\ success_count = 0
    /\ fail_count = 0
    /\ error_count = 0
    /\ files_with_errors = <<>>
    /\ idx = 0
    /\ file_had_error = FALSE
    /\ png_files = <<>>
    /\ page_success = 0
    /\ page_fail = 0
    /\ pidx = 0
    /\ pc = "check_dependencies"
    /\ exit_status = -1
    /\ log = <<>>

Init == Start(0)

\* ------------------------------------------------------------- actions

\* lines 142, 74-102: a missing tool ends the run with status 1 before anything
\* is logged
check_dependencies ==
    /\ pc = "check_dependencies"
    /\ \E missing \in BOOLEAN :
        /\ pc' = IF missing THEN "missing_dependencies" ELSE "output_dir"
        /\ exit_status' = IF missing THEN 1 ELSE exit_status
    /\ UNCHANGED <<config, pdf_files, counters, idx, file_had_error, pageloop, log,
                   files, dirs, faults>>

\* line 165, open of the log file raises: nothing catches it, the interpreter
\* ends with status 1 and nothing logged
LogFileMissing ==
    /\ pc = "output_dir"
    /\ ~CanOpen(LogFilePath)
    /\ pc' = "crashed"
    /\ exit_status' = 1
    /\ UNCHANGED <<config, pdf_files, counters, idx, file_had_error, pageloop, log,
                   files, dirs, faults>>

\* lines 165-174: the output directory is checked, and created when missing
MakeOutputDir ==
    /\ pc = "output_dir"
    /\ CanOpen(LogFilePath)
    /\ IF output_dir = "missing"
       THEN \E fails \in BOOLEAN :
            /\ fails => faults < MaxFaults
            /\ faults' = IF fails THEN faults + 1 ELSE faults
            /\ output_dir' = IF fails THEN "missing" ELSE "exists"
            /\ IF fails
               THEN /\ log' = log \o <<RunLine("dir_check", 0), RunLine("dir_missing", 0)>>
                                  \o handle_error("error_mkdir", 0, -1, error_handling)
                    /\ IF ExitsOnError(error_handling)
                       THEN /\ pc' = "aborted"
                            /\ exit_status' = 1
                            /\ error_count' = error_count
                       ELSE /\ pc' = "discover"
                            /\ exit_status' = exit_status
                            /\ error_count' = error_count + 1
               ELSE /\ log' = log \o <<RunLine("dir_check", 0), RunLine("dir_missing", 0)>>
                    /\ pc' = "discover"
                    /\ UNCHANGED <<exit_status, error_count>>
       ELSE /\ log' = log \o <<RunLine("dir_check", 0), RunLine("dir_exists", 0)>>
            /\ pc' = "discover"
            /\ UNCHANGED <<exit_status, error_count, output_dir, faults>>
    /\ UNCHANGED <<config, pdf_files, success_count, fail_count, files_with_errors,
                   idx, file_had_error, pageloop, files, log_dir>>

\* the documents glob finds in the input directory (line 178)
Discovered == [k \in 1..Cardinality({d \in Docs : pdf[d] = "exists"}) |-> k]

\* the log_print calls of the no-PDF branch, lines 180-187 (files_with_errors is
\* empty there, so lines 189-191 log nothing)
NoFilesCalls ==
    << [line |-> RunLine("no_pdf_found", 0), target |-> LogFilePath],
       [line |-> RunLine("complete_no_files", 0), target |-> LogFilePath],
       [line |-> RunLine("summary", 0), target |-> LogFilePath],
       [line |-> RunLine("summary_success", success_count),
        target |-> LogPrintFunction],
       [line |-> RunLine("summary_fail", fail_count), target |-> LogFilePath],
       [line |-> RunLine("summary_errors", error_count), target |-> LogFilePath],
       [line |-> RunLine("summary_duration", 0), target |-> LogFilePath] >>

\* lines 177-179, PDFs found: the document loop starts
Discover ==
    /\ pc = "discover"
    /\ Discovered # <<>>
    /\ pdf_files' = Discovered
    /\ idx' = 1
    /\ pc' = "convert"
    /\ log' = Append(log, RunLine("checking_pdfs", 0))
    /\ UNCHANGED <<config, dirs, counters, file_had_error, pageloop, exit_status, files, faults>>

\* lines 177-192, no PDF found: the summary, then exit(0); an exception raised
\* on the way ends the interpreter with status 1
NoFiles ==
    /\ pc = "discover"
    /\ Discovered = <<>>
    /\ pdf_files' = Discovered
    /\ LET r == log_print_all(Append(log, RunLine("checking_pdfs", 0)),
                              NoFilesCalls)
       IN  /\ log' = r.log
           /\ pc' = IF r.raised THEN "crashed" ELSE "done"
           /\ exit_status' = IF r.raised THEN 1 ELSE 0
    /\ UNCHANGED <<config, dirs, counters, idx, file_had_error, pageloop, files, faults>>

\* the document the loop is at
Cur == pdf_files[idx]

\* lines 196-206: convert is run on the document; it leaves npages page images
\* and may raise
Convert ==
    /\ pc = "convert"
    /\ \E raises \in BOOLEAN, npages \in 0..MaxPages :
        /\ raises => faults < MaxFaults
        /\ faults' = IF raises THEN faults + 1 ELSE faults
        /\ png' = [png EXCEPT ![Cur] =
                      [p \in PageIdx |-> IF p < npages THEN "exists" ELSE png[Cur][p]]]
        /\ rasterized' = [rasterized EXCEPT ![Cur] = npages]
        /\ IF raises
           THEN /\ log' = log \o <<DocLine("converting", Cur)>>
                              \o handle_error("error_convert", Cur, -1, error_handling)
                /\ IF ExitsOnError(error_handling)
                   THEN /\ pc' = "aborted"
                        /\ exit_status' = 1
                        /\ error_count' = error_count
                        /\ file_had_error' = FALSE
                   ELSE /\ pc' = "check_pngs"
                        /\ exit_status' = exit_status
                        /\ error_count' = error_count + 1
                        /\ file_had_error' = TRUE
           ELSE /\ log' = Append(log, DocLine("converting", Cur))
                /\ pc' = "check_pngs"
                /\ file_had_error' = FALSE
                /\ UNCHANGED <<exit_status, error_count>>
    /\ UNCHANGED <<config, dirs, pdf_files, success_count, fail_count, files_with_errors,
                   idx, pageloop, pdf, txt, aggregate>>

\* line 209: the page images in the working directory whose name matches the
\* pattern of the document
PngsOf(d) == {f \in AllFiles : png[f.doc][f.page] = "exists"
                                  /\ Globbed[stem[d]][stem[f.doc]][f.page]}

\* the position after the document the loop is at: the next document, or the
\* summary after the last
NextDocPc == IF idx < Len(pdf_files) THEN "convert" ELSE "summary"

\* lines 214-216: the zero-pages branch's new files_with_errors
ZeroPagesFailed(fwe, fhe, d) == IF ~fhe THEN Append(fwe, d) ELSE fwe

\* lines 208-217, no page image found: the document failed, its PDF is kept
ZeroPages ==
    /\ pc = "check_pngs"
    /\ PngsOf(Cur) = {}
    /\ png_files' = <<>>
    /\ log' = log \o <<DocLine("no_png", Cur),
                       DocLine("skip_delete_pdf_failed", Cur),
                       DocLine("incomplete", Cur)>>
    /\ fail_count' = fail_count + 1
    /\ files_with_errors' = ZeroPagesFailed(files_with_errors, file_had_error, Cur)
    /\ idx' = idx + 1
    /\ pc' = NextDocPc
    /\ UNCHANGED <<config, dirs, pdf_files, success_count, error_count, file_had_error,
                   page_success, page_fail, pidx, exit_status, files, faults>>

\* lines 208-226, page images found: the PDF is deleted or kept, the page loop starts
DeletePdf ==
    /\ pc = "check_pngs"
    /\ PngsOf(Cur) # {}
    /\ \E order \in Perms(PngsOf(Cur)), fails \in BOOLEAN :
        LET r == delete_pdf(Cur, no_delete, keep_pdfs, fails)
        IN  /\ (r.ret = 1) = fails
            /\ fails => faults < MaxFaults
            /\ faults' = faults + r.ret
            /\ png_files' = order
            /\ log' = log \o r.log
            /\ pdf' = IF r.removed THEN [pdf EXCEPT ![Cur] = "deleted"] ELSE pdf
            /\ error_count' = error_count + r.ret
            /\ file_had_error' = (file_had_error
                                    \/ OverThreshold(error_count + r.ret, Len(order)))
    /\ page_success' = 0
    /\ page_fail' = 0
    /\ pidx' = 1
    /\ pc' = "tesseract"
    /\ UNCHANGED <<config, dirs, pdf_files, success_count, fail_count, files_with_errors,
                   idx, exit_status, png, txt, aggregate, rasterized>>

\* the page image the page loop is at
CurPage == png_files[pidx]

\* lines 228-238: tesseract is run on the page image; it may raise, and it
\* writes the text file in the output directory or not (never when the output
\* directory is missing); a text file that was there before the call stays.
\* Writing nothing counts as a failure when the directory is there and no text
\* file is left for line 241 to find
Tesseract ==
    /\ pc = "tesseract"
    /\ \E raises \in BOOLEAN, writes \in BOOLEAN :
        LET nf == (IF raises THEN 1 ELSE 0)
                    + (IF ~writes /\ output_dir = "exists"
                          /\ txt[CurPage.doc][CurPage.page] # "exists" THEN 1 ELSE 0)
        IN  /\ writes => output_dir = "exists"
            /\ faults + nf <= MaxFaults
            /\ faults' = faults + nf
            /\ txt' = IF writes THEN [txt EXCEPT ![CurPage.doc][CurPage.page] = "exists"] ELSE txt
            /\ IF raises
               THEN /\ log' = log \o <<PageLine("ocr", CurPage.doc, CurPage.page)>>
                                  \o handle_error("error_ocr", CurPage.doc, CurPage.page, error_handling)
                    /\ IF ExitsOnError(error_handling)
                       THEN /\ pc' = "aborted"
                            /\ exit_status' = 1
                            /\ UNCHANGED <<error_count, file_had_error>>
                       ELSE /\ pc' = "route"
                            /\ exit_status' = exit_status
                            /\ error_count' = error_count + 1
                            /\ file_had_error' = TRUE
               ELSE /\ log' = Append(log, PageLine("ocr", CurPage.doc, CurPage.page))
                    /\ pc' = "route"
                    /\ UNCHANGED <<exit_status, error_count, file_had_error>>
    /\ UNCHANGED <<config, dirs, pdf_files, success_count, fail_count, files_with_errors,
                   idx, pageloop, pdf, png, aggregate, rasterized>>

\* the position after the page the page loop is at
NextPagePc == IF pidx < Len(png_files) THEN "tesseract" ELSE "finalize"

\* lines 240-254 with a failed deletion of the page image counted as a failed
\* page
RouteOutput_DeleteFailsPage ==
    /\ pc = "route"
    /\ txt[CurPage.doc][CurPage.page] = "exists"
    /\ \E outcome \in AppendOutcomes, fails \in BOOLEAN :
        LET a == IF single_file
                 THEN append_to_single_file(CurPage.doc, CurPage.page, TRUE, outcome)
                 ELSE [ret |-> TRUE, written |-> "nothing", removed |-> FALSE, log |-> <<>>]
            r == delete_png(CurPage.doc, CurPage.page, no_delete, keep_pngs, fails)
            nf == (IF a.ret THEN 0 ELSE 1) + r.ret
        IN  /\ ~single_file => outcome = "ok"
            /\ (r.ret = 1) = fails
            /\ faults + nf <= MaxFaults
            /\ faults' = faults + nf
            /\ aggregate' = aggregate \o Written(CurPage.doc, CurPage.page, a.written)
            /\ txt' = IF a.removed THEN [txt EXCEPT ![CurPage.doc][CurPage.page] = "deleted"] ELSE txt
            /\ png' = IF r.removed THEN [png EXCEPT ![CurPage.doc][CurPage.page] = "deleted"] ELSE png
            /\ page_success' = IF a.ret /\ r.ret = 0 THEN page_success + 1
                               ELSE page_success
            /\ page_fail' = IF a.ret /\ r.ret = 0 THEN page_fail ELSE page_fail + 1
            /\ error_count' = error_count + r.ret
            /\ file_had_error' = (file_had_error \/ ~a.ret
                                    \/ OverThreshold(error_count + r.ret, Len(png_files)))
            /\ log' = log \o a.log \o r.log
    /\ pidx' = pidx + 1
    /\ pc' = NextPagePc
    /\ UNCHANGED <<config, dirs, pdf_files, success_count, fail_count, files_with_errors,
                   idx, png_files, exit_status, pdf, rasterized>>

\* lines 240-254, the text file exists: it is appended to the single file or
\* left as it is, then the page image is deleted or kept
RouteOutput ==
    /\ pc = "route"
    /\ txt[CurPage.doc][CurPage.page] = "exists"
    /\ \E outcome \in AppendOutcomes, fails \in BOOLEAN :
        LET a == IF single_file
                 THEN append_to_single_file(CurPage.doc, CurPage.page, TRUE, outcome)
                 ELSE [ret |-> TRUE, written |-> "nothing", removed |-> FALSE, log |-> <<>>]
            r == delete_png(CurPage.doc, CurPage.page, no_delete, keep_pngs, fails)
            nf == (IF a.ret THEN 0 ELSE 1) + r.ret
        IN  /\ ~single_file => outcome = "ok"
            /\ (r.ret = 1) = fails
            /\ faults + nf <= MaxFaults
            /\ faults' = faults + nf
            /\ aggregate' = aggregate \o Written(CurPage.doc, CurPage.page, a.written)
            /\ txt' = IF a.removed THEN [txt EXCEPT ![CurPage.doc][CurPage.page] = "deleted"] ELSE txt
            /\ png' = IF r.removed THEN [png EXCEPT ![CurPage.doc][CurPage.page] = "deleted"] ELSE png
            /\ page_success' = IF a.ret THEN page_success + 1 ELSE page_success
            /\ page_fail' = IF a.ret THEN page_fail ELSE page_fail + 1
            /\ error_count' = error_count + r.ret
            /\ file_had_error' = (file_had_error \/ ~a.ret
                                    \/ OverThreshold(error_count + r.ret, Len(png_files)))
            /\ log' = log \o a.log \o r.log
    /\ pidx' = pidx + 1
    /\ pc' = NextPagePc
    /\ UNCHANGED <<config, dirs, pdf_files, success_count, fail_count, files_with_errors,
                   idx, png_files, exit_status, pdf, rasterized>>

\* lines 255-257 with the deletion of line 252 moved behind the if/else: the
\* image of a page without OCR output is deleted like any other
OcrMissing_DeletesPng ==
    /\ pc = "route"
    /\ txt[CurPage.doc][CurPage.page] # "exists"
    /\ LET r == delete_png(CurPage.doc, CurPage.page, no_delete, keep_pngs, FALSE)
       IN  /\ log' = log \o <<PageLine("skip_delete_png_failed", CurPage.doc, CurPage.page)>> \o r.log
           /\ png' = IF r.removed THEN [png EXCEPT ![CurPage.doc][CurPage.page] = "deleted"] ELSE png
    /\ page_fail' = page_fail + 1
    /\ pidx' = pidx + 1
    /\ pc' = NextPagePc
    /\ UNCHANGED <<config, dirs, pdf_files, counters, idx, file_had_error, png_files,
                   page_success, exit_status, pdf, txt, aggregate, rasterized, faults>>

\* lines 240-241, 255-257, the text file does not exist: the page failed, its
\* image is kept
OcrMissing ==
    /\ pc = "route"
    /\ txt[CurPage.doc][CurPage.page] # "exists"
    /\ log' = Append(log, PageLine("skip_delete_png_failed", CurPage.doc, CurPage.page))
    /\ page_fail' = page_fail + 1
    /\ pidx' = pidx + 1
    /\ pc' = NextPagePc
    /\ UNCHANGED <<config, dirs, pdf_files, counters, idx, file_had_error, png_files,
                   page_success, exit_status, files, faults>>

\* line 265 reached only when no page succeeded: a partly converted document
\* is counted nowhere
FinalizeFail_NoPartial(fc, ps, pf) == IF ps = 0 THEN fc + 1 ELSE fc
\* lines 262 and 265: the new success_count and fail_count
FinalizeSuccess(sc, ps, pf) == IF DocSucceeded(ps, pf) THEN sc + 1 ELSE sc
FinalizeFail(fc, ps, pf) == IF DocSucceeded(ps, pf) THEN fc ELSE fc + 1

\* lines 263-270 without the two guards (line 266 "if not file_had_error", line
\* 269 "not in files_with_errors"): both appends happen
FinalizeFailed_NoGuards(fwe, fhe, ps, pf, d) ==
    LET first == IF ~DocSucceeded(ps, pf) THEN Append(fwe, d) ELSE fwe
    IN  IF fhe THEN Append(first, d) ELSE first

\* lines 263-270: the new files_with_errors
FinalizeFailed(fwe, fhe, ps, pf, d) ==
    LET first == IF ~DocSucceeded(ps, pf) /\ ~fhe THEN Append(fwe, d) ELSE fwe
    IN  IF fhe /\ d \notin Range(first) THEN Append(first, d) ELSE first

\* lines 259-270: the document is counted
Finalize ==
    /\ pc = "finalize"
    /\ log' = Append(log, DocLine(IF DocSucceeded(page_success, page_fail)
                                  THEN "success" ELSE "incomplete", Cur))
    /\ success_count' = FinalizeSuccess(success_count, page_success, page_fail)
    /\ fail_count' = FinalizeFail(fail_count, page_success, page_fail)
    /\ files_with_errors' = FinalizeFailed(files_with_errors, file_had_error,
                                           page_success, page_fail, Cur)
    /\ idx' = idx + 1
    /\ pc' = NextDocPc
    /\ UNCHANGED <<config, dirs, pdf_files, error_count, file_had_error, pageloop,
                   exit_status, files, faults>>

\* lines 284-285: one line for each file with errors
FailedLines(fwe) == [k \in 1..Len(fwe) |-> DocLine("summary_failed_file", fwe[k])]

\* lines 272-286: the final summary; the script ends with status 0
Summary ==
    /\ pc = "summary"
    /\ log' = log \o <<RunLine("complete", 0),
                       RunLine("summary", 0),
                       RunLine("summary_success", success_count),
                       RunLine("summary_fail", fail_count),
                       RunLine("summary_errors", error_count),
                       RunLine("summary_duration", 0)>>
                   \o (IF files_with_errors # <<>>
                       THEN <<RunLine("summary_failed_header", 0)>>
                            \o FailedLines(files_with_errors)
                       ELSE <<>>)
                   \o <<RunLine("logged_to", 0)>>
    /\ pc' = "done"
    /\ exit_status' = 0
    /\ UNCHANGED <<config, dirs, pdf_files, counters, idx, file_had_error, pageloop,
                   files, faults>>

Next ==
    \/ check_dependencies
    \/ LogFileMissing
    \/ MakeOutputDir
    \/ Discover
    \/ NoFiles
    \/ Convert
    \/ ZeroPages
    \/ DeletePdf
    \/ Tesseract
    \/ RouteOutput
    \/ OcrMissing
    \/ Finalize
    \/ Summary

Spec == Init /\ [][Next]_vars

\* the script is sequential and every external call returns or raises: a step
\* that can be taken is taken
FairInit == Start(MaxFaults - MaxFairFaults)
FairSpec == FairInit /\ [][Next]_vars /\ WF_vars(Next)

\* ------------------------------------------------------------ reading the state
\* the log has a line with this tag for this document (and page)
HasDocLine(tag, d) == \E k \in 1..Len(log) : log[k].tag = tag /\ log[k].doc = d
HasPageLine(tag, d, p) ==
    \E k \in 1..Len(log) : log[k].tag = tag /\ log[k].doc = d /\ log[k].page = p
HasTag(tag) == \E k \in 1..Len(log) : log[k].tag = tag
\* how many lines of the log have one of these tags (for this document)
CountTags(tags) == Cardinality({k \in 1..Len(log) : log[k].tag \in tags})
CountDocTags(tags, d) ==
    Cardinality({k \in 1..Len(log) : log[k].tag \in tags /\ log[k].doc = d})

\* the document the script was at when it logged line k: the one named by the
\* last "Converting ... to PNGs" line up to k (0 before the first)
RECURSIVE DocAt(_)
DocAt(k) == IF k = 0 THEN 0
            ELSE IF log[k].tag = "converting" THEN log[k].doc
            ELSE DocAt(k - 1)
\* the lines of the log with one of these tags logged while the script was at
\* the document
LinesOf(tags, d) == {k \in 1..Len(log) : log[k].tag \in tags /\ DocAt(k) = d}

\* the lines one pass of the page loop logs after its "Converting <png>" line
\* ("exiting": handle_error called from line 236 in exit mode)
PageTags == {"error_ocr", "exiting", "appended", "error_append", "skip_delete_png",
             "deleting_png", "error_delete_png", "skip_delete_png_failed"}
\* the passes of the page loop: the positions of their "Converting <png>" lines
Passes == {k \in 1..Len(log) : log[k].tag = "ocr"}
RECURSIVE PassEnd(_)
\* the first line from j on that is not a line of the pass
PassEnd(j) == IF j > Len(log) THEN j
              ELSE IF log[j].tag \notin PageTags THEN j
              ELSE PassEnd(j + 1)
\* the lines the pass that starts at line k logged after it
Pass(k) == (k + 1)..(PassEnd(k + 1) - 1)
\* the pass has a line with this tag
PassHas(k, tag) == \E j \in Pass(k) : log[j].tag = tag
\* the pass is over: the script logged the next pass or counted the document
PassOver(k) == /\ PassEnd(k + 1) <= Len(log)
               /\ log[PassEnd(k + 1)].tag \in {"ocr", "success", "incomplete"}
\* the page image the pass is about
FileOf(k) == File(log[k].doc, log[k].page)
\* the last pass on the page image
IsLastPass(k) == \A j \in Passes : FileOf(j) = FileOf(k) => j <= k

\* the pages convert wrote for the document in this run
PagesOf(d) == {p \in PageIdx : p < rasterized[d]}
\* the document was counted: line 213, 261 or 264 was logged for it
Counted(d) == HasDocLine("success", d) \/ HasDocLine("incomplete", d)
\* the page succeeded: its text artifact was written by tesseract and, in
\* aggregation mode, appended to the single file and removed
PageOk(d, p) ==
    IF single_file
    THEN txt[d][p] = "deleted" /\ Block(d, p) \in Range(aggregate)
    ELSE txt[d][p] = "exists"
\* the document has a page and all its pages succeeded
AllPagesOk(d) == PagesOf(d) # {} /\ \A p \in PagesOf(d) : PageOk(d, p)
\* the final summary of lines 276-286 was written
SummaryEmitted == HasTag("logged_to")

\* ------------------------------------------------------------------ claims

\* the lines that report a detected error: zero pages, OCR output missing, a
\* failed deletion, a failed append, an exception of an external call
ErrorTags == {"no_png", "skip_delete_png_failed", "error_delete_pdf",
              "error_delete_png", "error_append", "error_convert", "error_ocr",
              "error_mkdir"}

\* C1: in abort mode (error_handling = "exit") the first detected error of any
\* kind ends the run at once with a non-zero exit status: once an error was
\* detected the run is aborted, nothing more was processed, no summary written.
C1_AbortOnFirstError ==
    (error_handling = "exit" /\ \E k \in 1..Len(log) : log[k].tag \in ErrorTags)
        => /\ pc = "aborted"
           /\ exit_status = 1
           /\ ~SummaryEmitted
           /\ CountTags(ErrorTags) = 1

\* the errors C2 lists: rasterization failure (zero pages), OCR output missing,
\* PDF or PNG deletion failure, aggregation-write failure
C2Tags == {"no_png", "skip_delete_png_failed", "error_delete_pdf",
           "error_delete_png", "error_append"}

\* C2: every detected error raises errorCount by one, so at run end errorCount
\* is at least the number of detected errors.
C2_EveryErrorCounted ==
    pc = "done" => error_count >= CountTags(C2Tags)

\* C3: when discovery finds no PDF the run completes normally: the full summary
\* with successCount = 0 and failCount = 0 is written, exit status 0.
C3_NoFilesCompletes ==
    HasTag("no_pdf_found")
        => /\ exit_status = 0
           /\ \E k \in 1..Len(log) : log[k].tag = "summary_success" /\ log[k].val = 0
           /\ \E k \in 1..Len(log) : log[k].tag = "summary_fail" /\ log[k].val = 0
           /\ HasTag("summary_errors")
           /\ HasTag("summary_duration")

\* C4: at run end every document counted in failCount has its path in
\* failedDocuments, whatever made it fail.
C4_FailedDocsListed ==
    pc = "done" => \A d \in Range(pdf_files) :
                      HasDocLine("incomplete", d) => d \in Range(files_with_errors)

\* C5: a document with at least one page whose pages all succeeded is never
\* added to failedDocuments.
C5_SuccessNotListed ==
    \A d \in Range(pdf_files) :
        (Counted(d) /\ AllPagesOk(d)) => d \notin Range(files_with_errors)

\* C5, the case of lines 221 and 253: a document that met no error of its own
\* (no line of the log reports one for it) and was counted as a success is in
\* failedDocuments, because earlier errors had raised error_count
C5_CleanDocListed ==
    \E d \in Range(pdf_files) :
        /\ HasDocLine("success", d)
        /\ CountDocTags(ErrorTags, d) = 0
        /\ d \in Range(files_with_errors)

\* C6: at run end successCount + failCount is the number of discovered
\* documents, and each document was counted exactly once.
C6_CountsPartitionDocs ==
    pc = "done" =>
        /\ success_count + fail_count = Len(pdf_files)
        /\ \A d \in Range(pdf_files) : CountDocTags({"success", "incomplete"}, d) = 1
        /\ success_count = CountTags({"success"})

\* C6 witness: a finished run of two documents, one counted in each counter
C6_Witness ==
    pc = "done" /\ Len(pdf_files) = 2 /\ success_count = 1 /\ fail_count = 1

\* C7: a document whose rasterization yields zero pages keeps its PDF under all
\* retention flags and raises failCount by exactly one; a PDF deletion is
\* attempted only for documents with at least one rasterized page.
C7_ZeroPagesKeepsPdf ==
    /\ \A d \in Range(pdf_files) :
          (HasDocLine("converting", d) /\ rasterized[d] = 0)
              => /\ pdf[d] = "exists"
                 /\ ~HasDocLine("deleting_pdf", d)
                 /\ ~HasDocLine("success", d)
                 /\ Counted(d) => CountDocTags({"incomplete"}, d) = 1
    /\ \A d \in Docs :
          (HasDocLine("deleting_pdf", d) \/ pdf[d] = "deleted") => PagesOf(d) # {}
    /\ fail_count = CountTags({"incomplete"})

\* C8: a document is counted in successCount iff it has at least one page and
\* every page succeeded, else in failCount; the text artifacts of the pages that
\* were converted are kept and their images deleted per policy even when another
\* page of the document failed.
C8_SuccessIffAllPagesOk ==
    /\ \A d \in Range(pdf_files) :
          Counted(d) =>
            /\ HasDocLine("success", d) <=> AllPagesOk(d)
            /\ HasDocLine("incomplete", d) <=> ~AllPagesOk(d)
            /\ \A p \in PagesOf(d) :
                  txt[d][p] # "none" =>
                    /\ txt[d][p] = "exists" \/ Block(d, p) \in Range(aggregate)
                    /\ png[d][p] = "deleted"
                         <=> (~no_delete /\ ~keep_pngs
                              /\ ~HasPageLine("error_delete_png", d, p))
    /\ success_count = CountTags({"success"})
    /\ fail_count = CountTags({"incomplete"})

\* C9: for all 8 combinations of the retention flags the PDF is deleted iff
\* noDelete = false and keepPdfs = false, the PNG iff noDelete = false and
\* keepPngs = false.
C9_RetentionTable ==
    /\ \A k \in 1..Len(log) :
          /\ log[k].tag = "deleting_pdf" => (~no_delete /\ ~keep_pdfs)
          /\ log[k].tag = "skip_delete_pdf" => (no_delete \/ keep_pdfs)
          /\ log[k].tag = "deleting_png" => (~no_delete /\ ~keep_pngs)
          /\ log[k].tag = "skip_delete_png" => (no_delete \/ keep_pngs)
          /\ log[k].tag = "ocr" =>
                /\ \A j \in Pass(k) : log[j].tag # "exiting" => FileOf(j) = FileOf(k)
                /\ PassOver(k)
                      => /\ Cardinality({j \in Pass(k) : log[j].tag \in
                                {"deleting_png", "skip_delete_png",
                                 "skip_delete_png_failed"}}) = 1
                         /\ PassHas(k, "skip_delete_png_failed")
                               \/ (PassHas(k, "deleting_png")
                                      <=> (~no_delete /\ ~keep_pngs))
                /\ (PassHas(k, "deleting_png") /\ ~PassHas(k, "error_delete_png"))
                      => png[log[k].doc][log[k].page] = "deleted"
    /\ \A d \in Docs :
          /\ pdf[d] = "deleted" => (~no_delete /\ ~keep_pdfs)
          /\ \A p \in PageIdx : png[d][p] = "deleted" => (~no_delete /\ ~keep_pngs)
    /\ \A d \in Range(pdf_files) :
          (~HasDocLine("no_png", d)
             /\ (d < idx \/ (d = idx /\ pc \in {"tesseract", "route", "finalize"})))
                => /\ HasDocLine("deleting_pdf", d) \/ HasDocLine("skip_delete_pdf", d)
                   /\ (HasDocLine("deleting_pdf", d) /\ ~HasDocLine("error_delete_pdf", d))
                         => pdf[d] = "deleted"

\* C9 witness: --keep-pngs alone: a PDF was deleted and a page image kept
C9_Witness ==
    /\ ~no_delete /\ ~keep_pdfs /\ keep_pngs
    /\ \E d \in Docs, p \in PageIdx :
          pdf[d] = "deleted" /\ HasPageLine("skip_delete_png", d, p)
                             /\ png[d][p] = "exists"

\* C10: in aggregation mode the pages of a document are processed and appended
\* in ascending page-index order starting at 0, and the blocks of one document
\* are contiguous in the aggregate file.
C10_AggregateInPageOrder ==
    single_file =>
        /\ \A i, j \in 1..Len(png_files) :
              (i < j /\ png_files[i].doc = png_files[j].doc)
                  => png_files[i].page < png_files[j].page
        /\ \A i, j \in 1..Len(aggregate) :
              (i < j /\ aggregate[i].doc = aggregate[j].doc)
                  => /\ aggregate[i].page < aggregate[j].page
                     /\ \A k \in i..j : aggregate[k].doc = aggregate[i].doc

\* the blocks of the aggregate file that hold text of the document; each block
\* starts with its own header (line 63)
BlocksOf(d) == {k \in 1..Len(aggregate) : aggregate[k].doc = d}

\* C11: in aggregation mode a document whose pages all succeeded has exactly one
\* header in the aggregate file, the header names the document and not a page
\* (hpage = -1), and the page texts follow it.
C11_OneHeaderPerDocument ==
    single_file =>
        \A d \in Range(pdf_files) :
            (Counted(d) /\ AllPagesOk(d)) =>
                /\ Cardinality(BlocksOf(d)) = 1
                /\ \A k \in BlocksOf(d) :
                      aggregate[k].hdoc = d /\ aggregate[k].hpage = -1
                /\ \A p \in PagesOf(d) : Block(d, p) \in Range(aggregate)

\* C12: in aggregation mode a page whose append failed is counted as failed
\* although its text artifact exists, so its document is not a success, and its
\* temporary text file stays; the text file is removed only after an append that
\* succeeded.
C12_FailedAppendKeepsText ==
    /\ \A k \in Passes :
          PassHas(k, "error_append")
              => /\ single_file
                 /\ ~HasDocLine("success", DocAt(k))
                 /\ Counted(DocAt(k)) => HasDocLine("incomplete", DocAt(k))
                 /\ (\A j \in Passes : (j > k /\ FileOf(j) = FileOf(k))
                                             => ~PassHas(j, "appended"))
                       => txt[log[k].doc][log[k].page] = "exists"
    /\ (pc \in {"tesseract", "route", "finalize"})
          => page_fail >= Cardinality(LinesOf({"error_append"}, Cur))
    /\ \A f \in AllFiles :
          txt[f.doc][f.page] = "deleted"
              => /\ single_file
                 /\ Block(f.doc, f.page) \in Range(aggregate)
                 /\ \E k \in Passes :
                       /\ FileOf(k) = f
                       /\ PassHas(k, "appended") /\ ~PassHas(k, "error_append")

\* C12 witness: a page whose tesseract output exists, whose append failed before
\* anything was written, in a document counted as failed
C12_Witness ==
    \E d \in Range(pdf_files), p \in PageIdx :
        /\ HasPageLine("error_append", d, p)
        /\ ~HasPageLine("appended", d, p)
        /\ txt[d][p] = "exists"
        /\ HasDocLine("incomplete", d)
        /\ fail_count >= 1

\* the lines that report a failed deletion
DeleteErrorTags == {"error_delete_pdf", "error_delete_png"}
\* the lines that report an exception of makedirs, convert or tesseract
RaiseTags == {"error_mkdir", "error_convert", "error_ocr"}

\* C13: a failed deletion of a PDF or of a page image raises errorCount by
\* exactly one (errorCount is the number of failed deletions plus, in continue
\* mode, the number of exceptions) and never changes the outcome: a document
\* whose pages all succeeded is counted as a success and not as a failure.
C13_DeletionFailureOnlyCounted ==
    /\ error_count = CountTags(DeleteErrorTags)
                       + (IF error_handling = "continue" THEN CountTags(RaiseTags) ELSE 0)
    /\ \A d \in Range(pdf_files) :
          (/\ Counted(d)
           /\ LinesOf({"ocr"}, d) # {}
           /\ LinesOf({"skip_delete_png_failed", "error_append"}, d) = {}
           /\ LinesOf(DeleteErrorTags, d) # {})
              => /\ HasDocLine("success", d)
                 /\ ~HasDocLine("incomplete", d)
    /\ success_count = CountTags({"success"})
    /\ fail_count = CountTags({"incomplete"})

\* C13 witness: the deletion of a document's PDF and of one of its page images
\* failed, both were counted, and the document is a success
C13_Witness ==
    \E d \in Range(pdf_files) :
        /\ HasDocLine("error_delete_pdf", d)
        /\ \E p \in PagesOf(d) : HasPageLine("error_delete_png", d, p)
        /\ AllPagesOk(d)
        /\ HasDocLine("success", d)
        /\ error_count = 2 /\ success_count = 1 /\ fail_count = 0

\* C14: in every reachable state failedDocuments holds no path twice.
C14_FailedDocsDistinct ==
    \A i, j \in 1..Len(files_with_errors) :
        i # j => files_with_errors[i] # files_with_errors[j]

\* C14 witness: a counted document with several failure causes (an exception of
\* tesseract and a page without OCR output) is listed, once
C14_Witness ==
    \E d \in Range(pdf_files) :
        /\ HasDocLine("incomplete", d)
        /\ HasDocLine("error_ocr", d)
        /\ HasDocLine("skip_delete_png_failed", d)
        /\ Cardinality({k \in 1..Len(files_with_errors) : files_with_errors[k] = d}) = 1

\* C15: in continue mode with at least one discovered document no error stops
\* the run: it never aborts, every document is converted once and counted once,
\* and the run reaches the final summary with exit status 0.
C15_ContinueReachesSummary ==
    /\ [](error_handling = "continue" /\ pdf_files # <<>>
            => /\ pc \notin {"aborted", "crashed"}
               /\ \A d \in Range(pdf_files) :
                     /\ CountDocTags({"converting"}, d) <= 1
                     /\ CountDocTags({"success", "incomplete"}, d) <= 1
               /\ pc = "done"
                     => /\ exit_status = 0
                        /\ SummaryEmitted
                        /\ \A d \in Range(pdf_files) :
                              /\ CountDocTags({"converting"}, d) = 1
                              /\ CountDocTags({"success", "incomplete"}, d) = 1)
    /\ (error_handling = "continue" /\ pdf_files # <<>>) ~> (pc = "done")

\* C15 witness: a continue-mode run of two documents that met three errors and
\* wrote the final summary
C15_Witness ==
    /\ error_handling = "continue"
    /\ Len(pdf_files) = 2
    /\ CountTags(ErrorTags) = 3
    /\ pc = "done" /\ exit_status = 0 /\ SummaryEmitted

\* C16: a page image is deleted (and its deletion attempted) only if the page's
\* text artifact was found after the OCR call and the flags say delete; in a
\* pass that found no OCR output the image is never deleted.
C16_PngDeletedOnlyAfterOcr ==
    /\ \A f \in AllFiles :
          (png[f.doc][f.page] = "deleted" \/ HasPageLine("deleting_png", f.doc, f.page))
              => /\ txt[f.doc][f.page] # "none"
                 /\ ~no_delete /\ ~keep_pngs
                 /\ \E k \in Passes : FileOf(k) = f /\ PassHas(k, "deleting_png")
    /\ \A k \in Passes :
          /\ PassHas(k, "deleting_png") => ~PassHas(k, "skip_delete_png_failed")
          /\ PassHas(k, "skip_delete_png_failed")
                => /\ ~PassHas(k, "deleting_png")
                   /\ IsLastPass(k)
                         => /\ png[log[k].doc][log[k].page] = "exists"
                            /\ txt[log[k].doc][log[k].page] # "exists"

\* C16 witness: with deletion of images allowed, a document with one page whose
\* image was deleted after its text was found and one page without OCR output
\* whose image is still there
C16_Witness ==
    /\ ~no_delete /\ ~keep_pngs
    /\ \E d \in Range(pdf_files) : \E p, q \in PagesOf(d) :
          /\ png[d][p] = "deleted" /\ txt[d][p] # "none"
          /\ HasPageLine("skip_delete_png_failed", d, q) /\ png[d][q] = "exists"

\* C17: in every reachable state every rasterized page still has its image, its
\* text file or its text in the aggregate file.
C17_NoPageContentLost ==
    \A d \in Docs : \A p \in PageIdx :
        png[d][p] # "none"
            => \/ png[d][p] = "exists"
               \/ txt[d][p] = "exists"
               \/ Block(d, p) \in Range(aggregate)

\* C17 witness: in aggregation mode a page whose image was deleted and whose
\* append failed: its text file is all that is left of it; and a page whose image
\* and text file are both gone: its text is in the aggregate file
C17_Witness ==
    /\ single_file
    /\ \E d \in Docs, p \in PageIdx :
          /\ png[d][p] = "deleted" /\ txt[d][p] = "exists"
          /\ Block(d, p) \notin Range(aggregate)
    /\ \E d \in Docs, p \in PageIdx :
          /\ png[d][p] = "deleted" /\ txt[d][p] = "deleted"
          /\ Block(d, p) \in Range(aggregate)

\* the positions in the log of the lines with one of these tags for the document
DocLinesAt(tags, d) == {k \in 1..Len(log) : log[k].tag \in tags /\ log[k].doc = d}

\* C18: for a document with at least one rasterized page the PDF deletion is
\* decided and attempted exactly once, after convert and before the first
\* tesseract call of its iteration, whatever the OCR outcomes: when the flags
\* say delete and os.remove does not fail the PDF is gone, also when every
\* page's OCR fails or the run aborts during OCR.
C18_PdfDeletedBeforeOcr ==
    \A d \in Range(pdf_files) :
        LET decided == DocLinesAt({"deleting_pdf", "skip_delete_pdf"}, d)
            ocr == LinesOf({"ocr"}, d)
            conv == DocLinesAt({"converting"}, d)
            past == d < idx \/ (d = idx /\ pc \in {"tesseract", "route", "finalize"})
                            \/ ocr # {}
        IN  /\ Cardinality(decided) <= 1
            /\ Cardinality(DocLinesAt({"deleting_pdf"}, d)) <= 1
            /\ \A k \in decided : \E c \in conv : c < k
            /\ \A k \in decided : \A o \in ocr : k < o
            /\ (rasterized[d] > 0 /\ past) =>
                  /\ Cardinality(decided) = 1
                  /\ (~no_delete /\ ~keep_pdfs)
                        => /\ HasDocLine("deleting_pdf", d)
                           /\ ~HasDocLine("error_delete_pdf", d) => pdf[d] = "deleted"
                  /\ (no_delete \/ keep_pdfs) => pdf[d] = "exists"

\* ------------------------------------------------------------ typing
Tags == {"dir_check", "dir_missing", "dir_exists", "error_mkdir", "exiting",
         "checking_pdfs", "no_pdf_found",
         "complete_no_files", "summary", "summary_success", "summary_fail",
         "summary_errors", "summary_duration", "summary_failed_header",
         "summary_failed_file", "logged_to", "complete", "converting",
         "error_convert", "no_png", "skip_delete_pdf_failed", "incomplete",
         "success", "skip_delete_pdf", "deleting_pdf", "error_delete_pdf",
         "ocr", "error_ocr", "appended", "error_append", "skip_delete_png",
         "deleting_png", "error_delete_png", "skip_delete_png_failed"}

TypeOK ==
    /\ no_delete \in BOOLEAN /\ keep_pdfs \in BOOLEAN /\ keep_pngs \in BOOLEAN
    /\ error_handling \in {"exit", "continue"}
    /\ single_file \in BOOLEAN
    /\ Range(pdf_files) \subseteq Docs
    /\ success_count \in Nat /\ fail_count \in Nat /\ error_count \in Nat
    /\ Range(files_with_errors) \subseteq Docs
    /\ idx \in 0..(MaxDocs + 1)
    /\ file_had_error \in BOOLEAN
    /\ Range(png_files) \subseteq AllFiles
    /\ page_success \in Nat /\ page_fail \in Nat
    /\ pidx \in 0..(Cardinality(AllFiles) + 1)
    /\ pc \in {"check_dependencies", "missing_dependencies", "output_dir",
               "discover", "convert", "check_pngs", "tesseract",
               "route", "finalize", "summary", "done", "aborted", "crashed"}
    /\ exit_status \in {-1, 0, 1}
    /\ \A k \in 1..Len(log) : log[k].tag \in Tags
    /\ pdf \in [Docs -> {"none", "exists", "deleted"}]
    /\ png \in [Docs -> [PageIdx -> {"none", "exists", "deleted"}]]
    /\ txt \in [Docs -> [PageIdx -> {"none", "exists", "deleted"}]]
    /\ \A k \in 1..Len(aggregate) : aggregate[k].doc \in Docs
    /\ output_dir \in {"missing", "exists"}
    /\ log_dir \in {"missing", "exists"}
    /\ stem \in [Docs -> Stems]
    /\ rasterized \in [Docs -> 0..MaxPages]
    /\ faults \in 0..MaxFaults

====
